---- MODULE Spec2Model ----
(***************************************************************************)
(* Task-management REST API (Flask + SQLAlchemy): a model of the request   *)
(* handlers of backend/app/routes/auth.py, users.py, projects.py and       *)
(* tasks.py and of the Task entity methods of backend/app/models/task.py.  *)
(*                                                                         *)
(* One action is one HTTP request, handled atomically in its own database  *)
(* transaction; register is two actions, the handler up to its lookup of   *)
(* the email and its INSERT, so that two registrations can interleave.     *)
(* The variable `last` holds the request just answered and its response:   *)
(* the status code and, in `info`, the part of the body the properties     *)
(* read.  `tokens` and `refresh_tokens` are the tokens issued so far,      *)
(* `inflight` the registrations between lookup and INSERT, `adding` the    *)
(* add_member requests between lookup and INSERT, `updating` the           *)
(* update_project requests between loading the row and the commit; every   *)
(* other variable is a table of the store.                                 *)
(*                                                                         *)
(* Identifiers are UUIDs.  A UUID that arrives as text (URL segment, JSON   *)
(* body) has a spelling: the canonical one that str(uuid) prints, or       *)
(* another one PostgreSQL's uuid input accepts for the same value (upper   *)
(* case).  A database lookup compares uuid values, a Python `==` on        *)
(* strings compares spellings.                                             *)
(*                                                                         *)
(* Text is a sequence of one-character strings.  Of each entity the model  *)
(* keeps the columns the handlers branch on or the properties read:        *)
(* User(email, password_hash, full_name, role, is_active, last_login),     *)
(* Project(owner_id, name, description, start_date, end_date),             *)
(* ProjectMember(project_id, user_id, role), Task(project_id, reporter_id, *)
(* title, description, status, assignee_id, due_date, completed_at,        *)
(* position), Comment(task_id, user_id, parent_comment_id).  The payload   *)
(* keys of an update that have no column here (priority, tags, project     *)
(* status) are the flag `other`: present and valid.  SQL NULL is <<>> in a  *)
(* text column, 0 in a timestamp column and NULL in any other column; a    *)
(* timestamp is the clock reading stored.                                  *)
(***************************************************************************)
EXTENDS Integers, Sequences, FiniteSets, TLC

\* ---------------------------------------------------------------- bounds
MaxProjects == 1
MaxTasks == 1
MaxComments == 1
MaxClock == 2
MaxRegistered == 2
MaxInflight == 2
MaxThreadTasks == 2
MaxThread == 3

\* ------------------------------------------------------------ enumerations
Roles == {"ADMIN", "MANAGER", "MEMBER", "VIEWER"}
TaskStatus == {"TODO", "IN_PROGRESS", "IN_REVIEW", "DONE", "ARCHIVED"}

NULL == "NULL"
ABSENT == "ABSENT"

\* ------------------------------------------------------------ input domains
UserIds == {"u1", "u2"}
UnknownUser == "u9"
NewUserIds == <<"u3", "u4">>
AllUserIds == UserIds \cup {NewUserIds[i] : i \in 1..MaxRegistered}
ProjectIds == 1..MaxProjects
TaskIds == 1..MaxTasks
CommentIds == 1..MaxComments
\* the tasks and comments of a run about comment threads
ThreadTaskIds == 1..MaxThreadTasks
ThreadIds == 1..MaxThread
Forms == {"canon", "upper"}

NameA == <<"a", "b", "c">>
NameB == <<"x", "y", "z">>
NamePadded == <<" ", "a", "b", " ">>
CreateNames == {NameA, NamePadded, <<>>}
\* a JSON text field: a string, null, or not in the payload
Field(v) == [present |-> TRUE, null |-> FALSE, v |-> v]
NoField == [present |-> FALSE, null |-> FALSE, v |-> <<>>]
NullField == [present |-> TRUE, null |-> TRUE, v |-> <<>>]
UpdateNames == {Field(NameA), Field(NameB), Field(NamePadded), NoField}
RoleInputs == Roles \cup {"BOGUS", ABSENT}
StatusInputs == {"TODO", "DONE", "BOGUS", ABSENT}
CreateStatusInputs == {"DONE", "BOGUS", ABSENT}
TitleInputs == {NameA, NamePadded}
PositionInputs == {0, 1}
MemberInputs == UserIds \cup {UnknownUser, ""}

\* dates as the strings strptime('%Y-%m-%d') accepts, in calendar order
Dates == {"D1", "D2"}
DateOrd(d) == IF d = "D1" THEN 1 ELSE 2
DateInputs == Dates \cup {"bad", NULL, ABSENT}
Descr == <<"d", "e">>
DescrInputs == {Field(Descr), Field(<<" ">>), NullField, NoField}

\* e-mail addresses and passwords
MailA == <<"a", "@", "x", ".", "c", "o">>
MailB == <<"b", "@", "x", ".", "c", "o">>
MailC == <<"c", "@", "x", ".", "c", "o">>
MailBShouted == <<" ", "B", "@", "x", ".", "c", "o", " ">>
MailCShouted == <<" ", "c", "@", "X", ".", "c", "o">>
MailBad == <<"b", "x", ".", "c", "o">>
MailShortTld == <<"b", "@", "x", ".", "c">>
PwGood == <<"A", "b", "c", "1", "a", "b", "c", "x">>
PwOther == <<"B", "b", "c", "1", "a", "b", "c", "x">>
PwShort == <<"A", "b", "1">>
PwShortLower == <<"a", "b">>
PwNoUpper == <<"a", "b", "c", "1", "a", "b", "c", "x">>
PwNoUpperNoDigit == <<"a", "b", "c", "x", "a", "b", "c", "x">>
PwNoLower == <<"A", "B", "A", "1", "A", "B", "A", "B">>
PwNoLowerNoDigit == <<"A", "B", "A", "B", "A", "B", "A", "B">>
PwNoDigit == <<"A", "b", "c", "x", "a", "b", "c", "x">>
PwLong == <<"A", "b", "c", "1", "a", "b", "c", "x", "!">>
Passwords == {PwGood, PwOther, PwShort, PwShortLower, PwNoUpper, PwNoUpperNoDigit,
              PwNoLower, PwNoLowerNoDigit, PwNoDigit, PwLong}

VARIABLES users, tokens, projects, members, tasks, comments, attachments,
          next_project, next_task, next_comment, clock, last,
          refresh_tokens, inflight, next_user, adding, updating

\* what the database holds
tables == <<users, projects, members, tasks, comments, attachments>>
\* tokens handed out, requests in flight
auth == <<refresh_tokens, inflight, next_user, adding, updating>>
store == <<users, tokens, projects, members, tasks, comments, attachments,
           next_project, next_task, next_comment, clock, auth>>
vars == <<users, tokens, projects, members, tasks, comments, attachments,
          next_project, next_task, next_comment, clock, last, auth>>

\* the tables and the columns kept of each
TypeOK ==
    /\ DOMAIN users \subseteq AllUserIds
    /\ UserIds \subseteq DOMAIN users
    /\ \A u \in DOMAIN users :
          /\ users[u].email \in {MailA, MailB, MailC}
          /\ users[u].password_hash \in {<<"$">> \o pw : pw \in Passwords}
          /\ users[u].full_name \in {NameA, NameB}
          /\ users[u].role \in Roles
          /\ users[u].is_active \in BOOLEAN
          /\ users[u].last_login \in 0..MaxClock
    /\ tokens \subseteq [uid : AllUserIds, role : Roles]
    /\ refresh_tokens \subseteq AllUserIds
    /\ DOMAIN projects \subseteq ProjectIds
    /\ \A p \in DOMAIN projects :
          /\ projects[p].owner_id \in AllUserIds
          /\ projects[p].name \in {NameA, NameB}
          /\ projects[p].description \in {<<>>, Descr}
          /\ projects[p].start_date \in Dates \cup {NULL}
          /\ projects[p].end_date \in Dates \cup {NULL}
    /\ members \subseteq [project_id : ProjectIds, user_id : AllUserIds, role : Roles]
    /\ DOMAIN tasks \subseteq TaskIds \cup ThreadTaskIds
    /\ \A t \in DOMAIN tasks :
          /\ tasks[t].project_id \in ProjectIds
          /\ tasks[t].reporter_id \in AllUserIds
          /\ tasks[t].title \in {NameA, NameB}
          /\ tasks[t].description \in {<<>>, Descr}
          /\ tasks[t].status \in TaskStatus
          /\ tasks[t].assignee_id \in UserIds \cup {NULL}
          /\ tasks[t].due_date \in Dates \cup {NULL}
          /\ tasks[t].completed_at \in 0..MaxClock
          /\ tasks[t].position \in PositionInputs
    /\ DOMAIN comments \subseteq CommentIds \cup ThreadIds
    /\ \A c \in DOMAIN comments :
          /\ comments[c].task_id \in TaskIds \cup ThreadTaskIds
          /\ comments[c].user_id \in UserIds
          /\ comments[c].parent_comment_id \in CommentIds \cup ThreadIds \cup {0}
    /\ attachments = {}
    /\ next_project \in 1..(MaxProjects + 1)
    /\ next_task \in 1..(MaxTasks + 1) \cup 1..(MaxThreadTasks + 1)
    /\ next_comment \in 1..(MaxComments + 1) \cup 1..(MaxThread + 1)
    /\ next_user \in 1..(MaxRegistered + 1)
    /\ clock \in 1..(MaxClock + 1)
    /\ Cardinality(inflight) <= MaxInflight
    /\ Cardinality(adding) <= MaxInflight
    /\ \A req \in adding :
          /\ req.project_id \in ProjectIds
          /\ req.user_id \in AllUserIds
          /\ req.role \in Roles
          /\ req.tok \in tokens
    /\ Cardinality(updating) <= MaxInflight
    /\ \A req \in updating : req.project_id \in ProjectIds /\ req.tok \in tokens

\* ------------------------------------------------------------ text helpers
RECURSIVE LStrip(_)
LStrip(s) == IF s # <<>> /\ Head(s) = " " THEN LStrip(Tail(s)) ELSE s

RECURSIVE RStrip(_)
RStrip(s) ==
    IF s # <<>> /\ s[Len(s)] = " " THEN RStrip(SubSeq(s, 1, Len(s) - 1)) ELSE s

\* str.strip()
Strip(s) == RStrip(LStrip(s))

UpperLetters == {"A", "B", "X"}
LowerLetters == {"a", "b", "c", "o", "x"}
Digits == {"1"}

\* str.lower()
Lower(s) == [i \in 1..Len(s) |->
               IF s[i] = "A" THEN "a" ELSE IF s[i] = "B" THEN "b"
               ELSE IF s[i] = "X" THEN "x" ELSE s[i]]

\* a UUID received as text
Ref(id, form) == [id |-> id, form |-> form]

\* Python: str(column_uuid) == text
StrEq(id, ref) == ref.id = id /\ ref.form = "canon"

\* SQL: column_uuid = text (the text is cast to uuid)
DbEq(id, ref) == ref.id = id

\* ------------------------------------------------------------ authorization
is_global_admin_never(tok) == FALSE
is_global_admin(tok) == tok.role = "ADMIN"

get_user_project_role(project_id, user_id) ==
    LET rows == {m \in members : m.project_id = project_id /\ m.user_id = user_id}
    IN IF rows = {} THEN NULL ELSE (CHOOSE m \in rows : TRUE).role

AnyRole == Roles

\* projects.py: (has_access, member.role)
has_project_access_open(project_id, tok, required_roles) ==
    IF is_global_admin(tok) THEN [has_access |-> TRUE, role |-> "ADMIN"]
    ELSE LET r == get_user_project_role(project_id, tok.uid)
         IN [has_access |-> TRUE, role |-> r]
has_project_access(project_id, tok, required_roles) ==
    IF is_global_admin(tok) THEN [has_access |-> TRUE, role |-> "ADMIN"]
    ELSE LET r == get_user_project_role(project_id, tok.uid)
         IN IF r = NULL THEN [has_access |-> FALSE, role |-> NULL]
            ELSE [has_access |-> r \in required_roles, role |-> r]

\* tasks.py: the admin test reads the caller's token, whoever user_id is
task_has_project_access(project_id, user_id, tok) ==
    IF is_global_admin(tok) THEN TRUE
    ELSE get_user_project_role(project_id, user_id) # NULL

can_modify_task_roles_only(task, tok) ==
    \/ is_global_admin(tok)
    \/ get_user_project_role(task.project_id, tok.uid) \in {"ADMIN", "MANAGER"}
can_modify_task(task, tok) ==
    \/ is_global_admin(tok)
    \/ task.reporter_id = tok.uid
    \/ get_user_project_role(task.project_id, tok.uid) \in {"ADMIN", "MANAGER"}

\* User.has_permission: role_hierarchy
Rank(role) ==
    CASE role = "ADMIN" -> 4
      [] role = "MANAGER" -> 3
      [] role = "MEMBER" -> 2
      [] role = "VIEWER" -> 1
      [] OTHER -> 0

\* ------------------------------------------------------------ responses
Resp(op, tok, id, code, info) ==
    [op |-> op, uid |-> tok.uid, role |-> tok.role, id |-> id,
     code |-> code, info |-> info]

NoRequest == [op |-> "none", uid |-> NULL, role |-> NULL, id |-> 0,
              code |-> 0, info |-> NULL]

\* a request that carries no verified identity
Anonymous == [uid |-> NULL, role |-> NULL]

\* ------------------------------------------------------------ store helpers
Without(f, k) == [x \in DOMAIN f \ {k} |-> f[x]]

project_tasks(project_id) == {t \in DOMAIN tasks : tasks[t].project_id = project_id}
task_comments(ts) == {c \in DOMAIN comments : comments[c].task_id \in ts}

\* a response with nothing committed
Reply(r) == /\ last' = r
            /\ UNCHANGED store

\* The end of a request's session.  `after` is the row as the handler left it
\* in the session; it reaches the table when the handler committed, and is
\* dropped by rollback() or by the removal of the session at teardown.
session_end_keeps_writes(committed, before, after) == after
session_end(committed, before, after) == IF committed THEN after ELSE before

\* A handler walks through the keys of the payload in a fixed order, assigning
\* to the row in its session; `code` stays 200 until a key makes it return,
\* and the keys after that one are not looked at.
Walk(obj) == [code |-> 200, obj |-> obj]

\* data[key].strip() stored when long enough; None.strip() raises
text_step_defaults_absent(r, f, col, minlen) ==
    IF r.code # 200 THEN r
    ELSE IF f.present /\ f.null THEN [r EXCEPT !.code = 500]
    ELSE IF f.present /\ Len(Strip(f.v)) < minlen THEN [r EXCEPT !.code = 400]
    ELSE [r EXCEPT !.obj[col] = IF f.present THEN Strip(f.v) ELSE <<>>]
text_step(r, f, col, minlen) ==
    IF r.code # 200 \/ ~f.present THEN r
    ELSE IF f.null THEN [r EXCEPT !.code = 500]
    ELSE IF Len(Strip(f.v)) < minlen THEN [r EXCEPT !.code = 400]
    ELSE [r EXCEPT !.obj[col] = Strip(f.v)]

\* strptime(data[key]) stored; a falsy value stores None
date_step(r, d, col) ==
    IF r.code # 200 \/ d = ABSENT THEN r
    ELSE IF d = NULL THEN [r EXCEPT !.obj[col] = NULL]
    ELSE IF d \notin Dates THEN [r EXCEPT !.code = 400]
    ELSE [r EXCEPT !.obj[col] = d]

\* ------------------------------------------------------------ projects.py
\* db_error: the database raises at commit, after the flush of the project
\* start_in, end_in: the start_date and end_date keys of the body
create_project_with(tok, name_in, start_in, end_in, db_error) ==
    LET name == Strip(name_in)
        op == "create_project"
        start_date == IF start_in \in {ABSENT, NULL, ""} THEN NULL ELSE start_in
        end_date == IF end_in \in {ABSENT, NULL, ""} THEN NULL ELSE end_in
        project == [owner_id |-> tok.uid, name |-> name, description |-> <<>>,
                    start_date |-> start_date, end_date |-> end_date]
        creator_member == [project_id |-> next_project, user_id |-> tok.uid,
                           role |-> "ADMIN"]
    IN IF name = <<>> THEN Reply(Resp(op, tok, 0, 400, NULL))
       ELSE IF Len(name) < 3 THEN Reply(Resp(op, tok, 0, 400, NULL))
       ELSE IF start_date # NULL /\ start_date \notin Dates
            THEN Reply(Resp(op, tok, 0, 400, NULL))
       ELSE IF end_date # NULL /\ end_date \notin Dates
            THEN Reply(Resp(op, tok, 0, 400, NULL))
       ELSE IF /\ start_date # NULL /\ end_date # NULL
               /\ DateOrd(start_date) > DateOrd(end_date)
            THEN Reply(Resp(op, tok, 0, 400, NULL))
       ELSE /\ next_project <= MaxProjects
            /\ projects' = session_end(~db_error, projects,
                                       projects @@ (next_project :> project))
            /\ members' = session_end(~db_error, members,
                                      members \cup {creator_member})
            /\ next_project' = IF db_error THEN next_project ELSE next_project + 1
            /\ last' = IF db_error THEN Resp(op, tok, next_project, 500, NULL)
                       ELSE Resp(op, tok, next_project, 201, "ADMIN")
            /\ UNCHANGED <<users, tokens, tasks, comments, attachments,
                           next_task, next_comment, clock, auth>>

\* a body without dates
create_project(tok, name_in, db_error) ==
    create_project_with(tok, name_in, ABSENT, ABSENT, db_error)

get_project_reply(tok, project_id) ==
    LET acc == has_project_access(project_id, tok, AnyRole)
        op == "get_project"
    IN IF ~acc.has_access THEN Resp(op, tok, project_id, 403, NULL)
       ELSE IF project_id \notin DOMAIN projects
            THEN Resp(op, tok, project_id, 404, NULL)
       ELSE Resp(op, tok, project_id, 200, acc.role)

\* info: user_role of the body
get_project(tok, project_id) == Reply(get_project_reply(tok, project_id))

\* a PUT /projects/<id> body; `other`: it carries a valid status
ProjectPayload(name, description, start_date, end_date, other) ==
    [name |-> name, description |-> description, start_date |-> start_date,
     end_date |-> end_date, other |-> other]

ProjectKeys(pl) ==
    {k \in {"name", "description"} : pl[k].present}
       \cup {k \in {"start_date", "end_date"} : pl[k] # ABSENT}

\* the walk of update_project through the payload
project_walk(project, pl) ==
    LET r1 == text_step(Walk(project), pl.name, "name", 3)
        r2 == text_step(r1, pl.description, "description", 0)
        r3 == date_step(r2, pl.start_date, "start_date")
        r4 == date_step(r3, pl.end_date, "end_date")
    IN IF r4.code # 200 THEN r4
       ELSE IF /\ r4.obj.start_date # NULL /\ r4.obj.end_date # NULL
               /\ DateOrd(r4.obj.start_date) > DateOrd(r4.obj.end_date)
            THEN [r4 EXCEPT !.code = 400]
       ELSE r4

update_project(tok, project_id, pl) ==
    LET acc == has_project_access(project_id, tok, {"ADMIN", "MANAGER"})
        op == "update_project"
    IN IF ~acc.has_access THEN Reply(Resp(op, tok, project_id, 403, NULL))
       ELSE IF project_id \notin DOMAIN projects
            THEN Reply(Resp(op, tok, project_id, 404, NULL))
       ELSE IF ProjectKeys(pl) = {} /\ ~pl.other
            THEN Reply(Resp(op, tok, project_id, 400, NULL))
       ELSE LET r == project_walk(projects[project_id], pl)
            IN /\ projects' = [projects EXCEPT ![project_id] =
                                  session_end(r.code = 200, @, r.obj)]
               /\ last' = Resp(op, tok, project_id, r.code, NULL)
               /\ UNCHANGED <<users, tokens, members, tasks, comments, attachments,
                              next_project, next_task, next_comment, clock, auth>>

\* update_project up to Project.query.get: the request holds the row as it
\* loaded it and is left in `updating`, not yet answered (code 0)
update_project_load(tok, project_id, pl) ==
    LET acc == has_project_access(project_id, tok, {"ADMIN", "MANAGER"})
        op == "update_project"
    IN IF ~acc.has_access THEN Reply(Resp(op, tok, project_id, 403, NULL))
       ELSE IF project_id \notin DOMAIN projects
            THEN Reply(Resp(op, tok, project_id, 404, NULL))
       ELSE IF ProjectKeys(pl) = {} /\ ~pl.other
            THEN Reply(Resp(op, tok, project_id, 400, NULL))
       ELSE /\ Cardinality(updating) < MaxInflight
            /\ updating' = updating \cup
                   {[project_id |-> project_id, pl |-> pl, tok |-> tok,
                     row |-> projects[project_id]]}
            /\ last' = Resp(op, tok, project_id, 0, NULL)
            /\ UNCHANGED <<users, tokens, projects, members, tasks, comments,
                           attachments, next_project, next_task, next_comment, clock,
                           refresh_tokens, inflight, next_user, adding>>

\* the UPDATE of the flush: the columns whose value differs from the loaded one
Flushed(current, loaded, obj) ==
    [col \in DOMAIN current |->
        IF obj[col] # loaded[col] THEN obj[col] ELSE current[col]]

\* the rest of update_project for a request left in `updating`: the walk and
\* the date check on the row as loaded, then the commit; a row deleted
\* meanwhile makes the commit raise, answered 500 after rollback
update_project_commit(req) ==
    LET op == "update_project"
        r == project_walk(req.row, req.pl)
    IN /\ req \in updating
       /\ updating' = updating \ {req}
       /\ IF r.code # 200
          THEN /\ last' = Resp(op, req.tok, req.project_id, r.code, NULL)
               /\ UNCHANGED projects
          ELSE IF req.project_id \notin DOMAIN projects
          THEN /\ last' = Resp(op, req.tok, req.project_id, 500, NULL)
               /\ UNCHANGED projects
          ELSE /\ projects' = [projects EXCEPT ![req.project_id] =
                                  Flushed(@, req.row, r.obj)]
               /\ last' = Resp(op, req.tok, req.project_id, 200, NULL)
       /\ UNCHANGED <<users, tokens, members, tasks, comments, attachments,
                      next_project, next_task, next_comment, clock,
                      refresh_tokens, inflight, next_user, adding>>

delete_project_row_only(project_id) ==
    /\ projects' = Without(projects, project_id)
    /\ members' = {m \in members : m.project_id # project_id}
    /\ UNCHANGED <<tasks, comments, attachments>>

\* db.session.delete(project): the cascades of Project.tasks, Project.members,
\* Task.comments and Task.attachments
delete_cascade(project_id) ==
    LET gone == project_tasks(project_id)
    IN /\ projects' = Without(projects, project_id)
       /\ members' = {m \in members : m.project_id # project_id}
       /\ tasks' = [t \in DOMAIN tasks \ gone |-> tasks[t]]
       /\ comments' = [c \in DOMAIN comments \ task_comments(gone) |-> comments[c]]
       /\ attachments' = {a \in attachments : a.task_id \notin gone}

delete_project(tok, project_id) ==
    LET acc == has_project_access(project_id, tok, {"ADMIN"})
        op == "delete_project"
    IN IF ~acc.has_access THEN Reply(Resp(op, tok, project_id, 403, NULL))
       ELSE IF project_id \notin DOMAIN projects
            THEN Reply(Resp(op, tok, project_id, 404, NULL))
       ELSE /\ delete_cascade(project_id)
            /\ last' = Resp(op, tok, project_id, 200,
                            IF task_comments(project_tasks(project_id)) # {}
                            THEN "TASKS_COMMENTS" ELSE NULL)
            /\ UNCHANGED <<users, tokens, next_project, next_task, next_comment,
                           clock, auth>>

add_member(tok, project_id, user_in, role_in) ==
    LET acc == has_project_access(project_id, tok, {"ADMIN", "MANAGER"})
        op == "add_member"
        role_str == IF role_in = ABSENT THEN "MEMBER" ELSE role_in
    IN IF ~acc.has_access THEN Reply(Resp(op, tok, project_id, 403, NULL))
       ELSE IF project_id \notin DOMAIN projects
            THEN Reply(Resp(op, tok, project_id, 404, NULL))
       ELSE IF user_in = "" THEN Reply(Resp(op, tok, project_id, 400, NULL))
       ELSE IF user_in \notin DOMAIN users
            THEN Reply(Resp(op, tok, project_id, 404, NULL))
       ELSE IF ~users[user_in].is_active
            THEN Reply(Resp(op, tok, project_id, 400, NULL))
       ELSE IF get_user_project_role(project_id, user_in) # NULL
            THEN Reply(Resp(op, tok, project_id, 400, NULL))
       ELSE IF role_str \notin Roles
            THEN Reply(Resp(op, tok, project_id, 400, NULL))
       ELSE /\ members' = members \cup
                   {[project_id |-> project_id, user_id |-> user_in, role |-> role_str]}
            /\ last' = Resp(op, tok, project_id, 201, user_in)
            /\ UNCHANGED <<users, tokens, projects, tasks, comments, attachments,
                           next_project, next_task, next_comment, clock, auth>>

\* add_member up to its query for an existing membership: the request is
\* left in `adding`, not yet answered (code 0)
add_member_lookup(tok, project_id, user_in, role_in) ==
    LET acc == has_project_access(project_id, tok, {"ADMIN", "MANAGER"})
        op == "add_member"
        role_str == IF role_in = ABSENT THEN "MEMBER" ELSE role_in
    IN IF ~acc.has_access THEN Reply(Resp(op, tok, project_id, 403, NULL))
       ELSE IF project_id \notin DOMAIN projects
            THEN Reply(Resp(op, tok, project_id, 404, NULL))
       ELSE IF user_in = "" THEN Reply(Resp(op, tok, project_id, 400, NULL))
       ELSE IF user_in \notin DOMAIN users
            THEN Reply(Resp(op, tok, project_id, 404, NULL))
       ELSE IF ~users[user_in].is_active
            THEN Reply(Resp(op, tok, project_id, 400, NULL))
       ELSE IF get_user_project_role(project_id, user_in) # NULL
            THEN Reply(Resp(op, tok, project_id, 400, NULL))
       ELSE IF role_str \notin Roles
            THEN Reply(Resp(op, tok, project_id, 400, NULL))
       ELSE /\ Cardinality(adding) < MaxInflight
            /\ adding' = adding \cup
                   {[project_id |-> project_id, user_id |-> user_in, role |-> role_str,
                     tok |-> tok]}
            /\ last' = Resp(op, tok, project_id, 0, user_in)
            /\ UNCHANGED <<users, tokens, projects, members, tasks, comments,
                           attachments, next_project, next_task, next_comment, clock,
                           refresh_tokens, inflight, next_user, updating>>

add_member_commit_no_constraint(req) ==
    /\ req \in adding
    /\ adding' = adding \ {req}
    /\ members' = members \cup
           {[project_id |-> req.project_id, user_id |-> req.user_id, role |-> req.role]}
    /\ last' = Resp("add_member", req.tok, req.project_id, 201, req.user_id)
    /\ UNCHANGED <<users, tokens, projects, tasks, comments, attachments,
                   next_project, next_task, next_comment, clock,
                   refresh_tokens, inflight, next_user, updating>>
\* the INSERT and commit of a request left in `adding`: uq_project_user or
\* the foreign key to a project deleted meanwhile raise IntegrityError,
\* answered 400 after rollback
add_member_commit(req) ==
    /\ req \in adding
    /\ adding' = adding \ {req}
    /\ IF \/ get_user_project_role(req.project_id, req.user_id) # NULL
          \/ req.project_id \notin DOMAIN projects
       THEN /\ last' = Resp("add_member", req.tok, req.project_id, 400, req.user_id)
            /\ UNCHANGED members
       ELSE /\ members' = members \cup
                   {[project_id |-> req.project_id, user_id |-> req.user_id,
                     role |-> req.role]}
            /\ last' = Resp("add_member", req.tok, req.project_id, 201, req.user_id)
    /\ UNCHANGED <<users, tokens, projects, tasks, comments, attachments,
                   next_project, next_task, next_comment, clock,
                   refresh_tokens, inflight, next_user, updating>>

remove_member(tok, project_id, member_ref) ==
    LET acc == has_project_access(project_id, tok, {"ADMIN"})
        op == "remove_member"
        rows == {m \in members : m.project_id = project_id /\ DbEq(m.user_id, member_ref)}
    IN IF ~acc.has_access THEN Reply(Resp(op, tok, project_id, 403, NULL))
       ELSE IF project_id \notin DOMAIN projects
            THEN Reply(Resp(op, tok, project_id, 404, NULL))
       ELSE IF rows = {} THEN Reply(Resp(op, tok, project_id, 404, NULL))
       ELSE LET member_to_remove == CHOOSE m \in rows : TRUE
            IN IF /\ member_to_remove.role = "ADMIN"
                  /\ StrEq(projects[project_id].owner_id, member_ref)
               THEN Reply(Resp(op, tok, project_id, 400, member_ref.id))
               ELSE /\ members' = members \ {member_to_remove}
                    /\ last' = Resp(op, tok, project_id, 200, member_ref.id)
                    /\ UNCHANGED <<users, tokens, projects, tasks, comments,
                                   attachments, next_project, next_task,
                                   next_comment, clock, auth>>

\* ------------------------------------------------------------ tasks.py
\* project_id: 0 for a payload without project_id
\* max_tasks: how many tasks the run may create
create_task_within(max_tasks, tok, project_id, title_in, status_in, assigned_to_id) ==
    LET op == "create_task"
        title == Strip(title_in)
        status_str == IF status_in = ABSENT THEN "TODO" ELSE status_in
    IN IF project_id = 0 THEN Reply(Resp(op, tok, project_id, 400, NULL))
       ELSE IF project_id \notin DOMAIN projects
       THEN Reply(Resp(op, tok, project_id, 404, NULL))
       ELSE IF ~task_has_project_access(project_id, tok.uid, tok)
            THEN Reply(Resp(op, tok, project_id, 403, NULL))
       ELSE IF title = <<>> THEN Reply(Resp(op, tok, project_id, 400, NULL))
       ELSE IF Len(title) < 3 THEN Reply(Resp(op, tok, project_id, 400, NULL))
       ELSE IF status_str \notin TaskStatus
            THEN Reply(Resp(op, tok, project_id, 400, NULL))
       ELSE IF assigned_to_id \notin {ABSENT, NULL, ""} /\ assigned_to_id \notin DOMAIN users
            THEN Reply(Resp(op, tok, project_id, 404, NULL))
       ELSE IF /\ assigned_to_id \notin {ABSENT, NULL, ""}
               /\ ~task_has_project_access(project_id, assigned_to_id, tok)
            THEN Reply(Resp(op, tok, project_id, 400, NULL))
       ELSE /\ next_task <= max_tasks
            /\ tasks' = tasks @@
                   (next_task :> [project_id |-> project_id,
                                  reporter_id |-> tok.uid,
                                  title |-> title,
                                  description |-> <<>>,
                                  status |-> status_str,
                                  assignee_id |-> IF assigned_to_id \in {ABSENT, NULL, ""}
                                                  THEN NULL ELSE assigned_to_id,
                                  due_date |-> NULL,
                                  completed_at |-> 0,
                                  position |-> 0])
            /\ next_task' = next_task + 1
            /\ last' = Resp(op, tok, next_task, 201, NULL)
            /\ UNCHANGED <<users, tokens, projects, members, comments, attachments,
                           next_project, next_comment, clock, auth>>

\* a body without assigned_to_id
create_task(tok, project_id, title_in, status_in) ==
    create_task_within(MaxTasks, tok, project_id, title_in, status_in, ABSENT)

get_task_reply(tok, task_id) ==
    LET op == "get_task"
    IN IF task_id \notin DOMAIN tasks THEN Resp(op, tok, task_id, 404, NULL)
       ELSE IF ~task_has_project_access(tasks[task_id].project_id, tok.uid, tok)
            THEN Resp(op, tok, task_id, 403, NULL)
       ELSE IF \E a \in attachments : a.task_id = task_id
            THEN Resp(op, tok, task_id, 500, NULL)
       ELSE Resp(op, tok, task_id, 200, tasks[task_id].status)

\* info: status of the body
get_task(tok, task_id) == Reply(get_task_reply(tok, task_id))

\* a PUT /tasks/<id> body; `other`: it carries a valid priority or tags
TaskPayload(title, description, status, assigned_to_id, due_date, other) ==
    [title |-> title, description |-> description, status |-> status,
     assigned_to_id |-> assigned_to_id, due_date |-> due_date, other |-> other]

TaskKeys(pl) ==
    {k \in {"title", "description"} : pl[k].present}
       \cup {k \in {"status", "assigned_to_id", "due_date"} : pl[k] # ABSENT}

\* TaskStatus[data['status'].upper()]; None.upper() raises
status_step(r, s) ==
    IF r.code # 200 \/ s = ABSENT THEN r
    ELSE IF s = NULL THEN [r EXCEPT !.code = 500]
    ELSE IF s \notin TaskStatus THEN [r EXCEPT !.code = 400]
    ELSE [r EXCEPT !.obj.status = s]

assignee_step(r, a, tok) ==
    IF r.code # 200 \/ a = ABSENT THEN r
    ELSE IF a \in {NULL, ""} THEN [r EXCEPT !.obj.assignee_id = NULL]
    ELSE IF a \notin DOMAIN users THEN [r EXCEPT !.code = 404]
    ELSE IF ~task_has_project_access(r.obj.project_id, a, tok)
         THEN [r EXCEPT !.code = 400]
    ELSE [r EXCEPT !.obj.assignee_id = a]

\* the walk of update_task through the payload
task_walk(task, pl, tok) ==
    LET r1 == text_step(Walk(task), pl.title, "title", 3)
        r2 == text_step(r1, pl.description, "description", 0)
        r3 == status_step(r2, pl.status)
        r4 == assignee_step(r3, pl.assigned_to_id, tok)
    IN date_step(r4, pl.due_date, "due_date")

\* info: the status key of the payload
update_task(tok, task_id, pl) ==
    LET op == "update_task"
    IN IF task_id \notin DOMAIN tasks THEN Reply(Resp(op, tok, task_id, 404, NULL))
       ELSE IF ~can_modify_task(tasks[task_id], tok)
            THEN Reply(Resp(op, tok, task_id, 403, NULL))
       ELSE IF TaskKeys(pl) = {} /\ ~pl.other
            THEN Reply(Resp(op, tok, task_id, 400, NULL))
       ELSE LET r == task_walk(tasks[task_id], pl, tok)
            IN /\ tasks' = [tasks EXCEPT ![task_id] =
                               session_end(r.code = 200, @, r.obj)]
               /\ last' = Resp(op, tok, task_id, r.code,
                               IF r.code = 200 THEN pl.status ELSE NULL)
               /\ UNCHANGED <<users, tokens, projects, members, comments,
                              attachments, next_project, next_task, next_comment,
                              clock, auth>>

delete_task(tok, task_id) ==
    LET op == "delete_task"
    IN IF task_id \notin DOMAIN tasks THEN Reply(Resp(op, tok, task_id, 404, NULL))
       ELSE IF ~can_modify_task(tasks[task_id], tok)
            THEN Reply(Resp(op, tok, task_id, 403, NULL))
       ELSE /\ tasks' = Without(tasks, task_id)
            /\ comments' = [c \in DOMAIN comments \ task_comments({task_id})
                               |-> comments[c]]
            /\ attachments' = {a \in attachments : a.task_id # task_id}
            /\ last' = Resp(op, tok, task_id, 200, NULL)
            /\ UNCHANGED <<users, tokens, projects, members,
                           next_project, next_task, next_comment, clock, auth>>

\* parent_in: 0 for no parent_id in the payload
add_comment_within_any_task(max_comments, tok, task_ref, has_content, parent_in) ==
    LET op == "add_comment"
        task_id == task_ref.id
    IN IF task_id \notin DOMAIN tasks THEN Reply(Resp(op, tok, task_id, 404, NULL))
       ELSE IF ~task_has_project_access(tasks[task_id].project_id, tok.uid, tok)
            THEN Reply(Resp(op, tok, task_id, 403, NULL))
       ELSE IF ~has_content THEN Reply(Resp(op, tok, task_id, 400, NULL))
       ELSE IF parent_in # 0 /\ parent_in \notin DOMAIN comments
            THEN Reply(Resp(op, tok, task_id, 404, NULL))
       ELSE /\ next_comment <= max_comments
            /\ comments' = comments @@
                   (next_comment :> [task_id |-> task_id, user_id |-> tok.uid,
                                     parent_comment_id |-> parent_in])
            /\ next_comment' = next_comment + 1
            /\ last' = Resp(op, tok, task_id, 201, NULL)
            /\ UNCHANGED <<users, tokens, projects, members, tasks, attachments,
                           next_project, next_task, clock, auth>>
\* max_comments: how many comments the run may create
add_comment_within(max_comments, tok, task_ref, has_content, parent_in) ==
    LET op == "add_comment"
        task_id == task_ref.id
    IN IF task_id \notin DOMAIN tasks THEN Reply(Resp(op, tok, task_id, 404, NULL))
       ELSE IF ~task_has_project_access(tasks[task_id].project_id, tok.uid, tok)
            THEN Reply(Resp(op, tok, task_id, 403, NULL))
       ELSE IF ~has_content THEN Reply(Resp(op, tok, task_id, 400, NULL))
       ELSE IF parent_in # 0 /\ parent_in \notin DOMAIN comments
            THEN Reply(Resp(op, tok, task_id, 404, NULL))
       ELSE IF parent_in # 0 /\ ~StrEq(comments[parent_in].task_id, task_ref)
            THEN Reply(Resp(op, tok, task_id, 400, NULL))
       ELSE /\ next_comment <= max_comments
            /\ comments' = comments @@
                   (next_comment :> [task_id |-> task_id, user_id |-> tok.uid,
                                     parent_comment_id |-> parent_in])
            /\ next_comment' = next_comment + 1
            /\ last' = Resp(op, tok, task_id, 201, NULL)
            /\ UNCHANGED <<users, tokens, projects, members, tasks, attachments,
                           next_project, next_task, clock, auth>>

add_comment(tok, task_ref, has_content, parent_in) ==
    add_comment_within(MaxComments, tok, task_ref, has_content, parent_in)

upload_attachment(tok, task_id) ==
    Reply(Resp("upload_attachment", tok, task_id, 501, NULL))

\* ------------------------------------------------------------ models/task.py
Called(op, task_id) == [op |-> op, uid |-> NULL, role |-> NULL, id |-> task_id,
                        code |-> 0, info |-> NULL]

\* datetime.utcnow(): the readings are distinct and increasing
mark_complete(task_id) ==
    /\ task_id \in DOMAIN tasks
    /\ clock <= MaxClock
    /\ tasks' = [tasks EXCEPT ![task_id].status = "DONE",
                              ![task_id].completed_at = clock]
    /\ clock' = clock + 1
    /\ last' = Called("mark_complete", task_id)
    /\ UNCHANGED <<users, tokens, projects, members, comments, attachments,
                   next_project, next_task, next_comment, auth>>

update_position_clears_stamp(task_id, new_position, new_status) ==
    /\ task_id \in DOMAIN tasks
    /\ clock <= MaxClock
    /\ LET moved == new_status # NULL /\ new_status # tasks[task_id].status
           stamp == moved /\ new_status = "DONE"
       IN /\ tasks' = [tasks EXCEPT
                 ![task_id].position = new_position,
                 ![task_id].status = IF moved THEN new_status ELSE @,
                 ![task_id].completed_at =
                     IF stamp THEN clock ELSE IF moved THEN 0 ELSE @]
          /\ clock' = IF stamp THEN clock + 1 ELSE clock
    /\ last' = Called("update_position", task_id)
    /\ UNCHANGED <<users, tokens, projects, members, comments, attachments,
                   next_project, next_task, next_comment, auth>>
\* new_status: NULL for the default argument None
update_position(task_id, new_position, new_status) ==
    /\ task_id \in DOMAIN tasks
    /\ clock <= MaxClock
    /\ LET moved == new_status # NULL /\ new_status # tasks[task_id].status
           stamp == moved /\ new_status = "DONE"
       IN /\ tasks' = [tasks EXCEPT
                 ![task_id].position = new_position,
                 ![task_id].status = IF moved THEN new_status ELSE @,
                 ![task_id].completed_at = IF stamp THEN clock ELSE @]
          /\ clock' = IF stamp THEN clock + 1 ELSE clock
    /\ last' = Called("update_position", task_id)
    /\ UNCHANGED <<users, tokens, projects, members, comments, attachments,
                   next_project, next_task, next_comment, auth>>

\* ------------------------------------------------------------ auth.py
LocalChars == UpperLetters \cup LowerLetters \cup Digits \cup {".", "_", "%", "+", "-"}
DomainChars == UpperLetters \cup LowerLetters \cup Digits \cup {".", "-"}

\* re.match(r'^[a-zA-Z0-9._%+-]+@[a-zA-Z0-9.-]+\.[a-zA-Z]{2,}$', email)
validate_email(email) ==
    \E i \in 2..Len(email) : \E j \in (i + 2)..(Len(email) - 2) :
       /\ email[i] = "@"
       /\ email[j] = "."
       /\ \A k \in 1..(i - 1) : email[k] \in LocalChars
       /\ \A k \in (i + 1)..(j - 1) : email[k] \in DomainChars
       /\ \A k \in (j + 1)..Len(email) : email[k] \in UpperLetters \cup LowerLetters

Verdict(ok, message) == [ok |-> ok, message |-> message]

validate_password_skips_digit(password) ==
    IF Len(password) < 8
    THEN Verdict(FALSE, "Password must be at least 8 characters long")
    ELSE IF ~\E i \in 1..Len(password) : password[i] \in UpperLetters
    THEN Verdict(FALSE, "Password must contain at least one uppercase letter")
    ELSE IF ~\E i \in 1..Len(password) : password[i] \in LowerLetters
    THEN Verdict(FALSE, "Password must contain at least one lowercase letter")
    ELSE Verdict(TRUE, "Password is valid")
validate_password(password) ==
    IF Len(password) < 8
    THEN Verdict(FALSE, "Password must be at least 8 characters long")
    ELSE IF ~\E i \in 1..Len(password) : password[i] \in UpperLetters
    THEN Verdict(FALSE, "Password must contain at least one uppercase letter")
    ELSE IF ~\E i \in 1..Len(password) : password[i] \in LowerLetters
    THEN Verdict(FALSE, "Password must contain at least one lowercase letter")
    ELSE IF ~\E i \in 1..Len(password) : password[i] \in Digits
    THEN Verdict(FALSE, "Password must contain at least one number")
    ELSE Verdict(TRUE, "Password is valid")

\* bcrypt: a hash matches the password it was made from and no other
set_password(password) == <<"$">> \o password

check_password_any(password_hash, password) == TRUE
check_password(password_hash, password) == password_hash = set_password(password)

\* User.query.filter_by(email=email).first()
user_by_email(email) == {u \in DOMAIN users : users[u].email = email}

\* register up to and including its lookup of the email; a request that
\* passes is left in flight, its INSERT still to come
register(email_in, password, name_in, role_in) ==
    LET op == "register"
        email == Lower(Strip(email_in))
        full_name == Strip(name_in)
        role == IF role_in = ABSENT THEN "MEMBER" ELSE role_in
        verdict == validate_password(password)
        slots == {r.slot : r \in inflight}
    IN IF ~validate_email(email)
       THEN Reply(Resp(op, Anonymous, 0, 400, "Invalid email format"))
       ELSE IF ~verdict.ok THEN Reply(Resp(op, Anonymous, 0, 400, verdict.message))
       ELSE IF Len(full_name) < 2
            THEN Reply(Resp(op, Anonymous, 0, 400, "Full name must be at least 2 characters"))
       ELSE IF role \notin Roles
            THEN Reply(Resp(op, Anonymous, 0, 400, "Invalid role"))
       ELSE IF user_by_email(email) # {}
            THEN Reply(Resp(op, Anonymous, 0, 409, "Email already registered"))
       ELSE /\ Cardinality(inflight) < MaxInflight
            /\ inflight' = inflight \cup
                   {[slot |-> CHOOSE s \in 1..MaxInflight : s \notin slots,
                     email |-> email,
                     password_hash |-> set_password(password),
                     full_name |-> full_name,
                     role |-> role]}
            /\ last' = Resp(op, Anonymous, 0, 0, "lookup found no user")
            /\ UNCHANGED <<users, tokens, projects, members, tasks, comments,
                           attachments, next_project, next_task, next_comment,
                           clock, refresh_tokens, next_user, adding, updating>>

\* db.session.add(new_user); db.session.commit(): the unique index on
\* users.email refuses a second row with the email (IntegrityError)
register_commit_no_unique_index(req) ==
    /\ req \in inflight
    /\ next_user <= MaxRegistered
    /\ inflight' = inflight \ {req}
    /\ users' = users @@ (NewUserIds[next_user] :>
                   [email |-> req.email, password_hash |-> req.password_hash,
                    full_name |-> req.full_name, role |-> req.role,
                    is_active |-> TRUE, last_login |-> 0])
    /\ next_user' = next_user + 1
    /\ last' = Resp("register", Anonymous, req.slot, 201, NewUserIds[next_user])
    /\ UNCHANGED <<tokens, projects, members, tasks, comments, attachments,
                   next_project, next_task, next_comment, clock, refresh_tokens,
                   adding, updating>>
\* id of the response: the slot of the request, 0 when register answered
\* before its INSERT
register_commit(req) ==
    /\ req \in inflight
    /\ inflight' = inflight \ {req}
    /\ IF user_by_email(req.email) # {}
       THEN /\ last' = Resp("register", Anonymous, req.slot, 409,
                            "Email already registered")
            /\ UNCHANGED <<users, next_user>>
       ELSE /\ next_user <= MaxRegistered
            /\ users' = users @@ (NewUserIds[next_user] :>
                           [email |-> req.email, password_hash |-> req.password_hash,
                            full_name |-> req.full_name, role |-> req.role,
                            is_active |-> TRUE, last_login |-> 0])
            /\ next_user' = next_user + 1
            /\ last' = Resp("register", Anonymous, req.slot, 201, NewUserIds[next_user])
    /\ UNCHANGED <<tokens, projects, members, tasks, comments, attachments,
                   next_project, next_task, next_comment, clock, refresh_tokens,
                   adding, updating>>

\* password: <<>> for a payload without it
login(email_in, password) ==
    LET op == "login"
        email == Lower(Strip(email_in))
        found == user_by_email(email)
        uid == CHOOSE u \in found : TRUE
    IN IF email = <<>> \/ password = <<>>
       THEN Reply(Resp(op, Anonymous, 0, 400, NULL))
       ELSE IF found = {} \/ ~check_password(users[uid].password_hash, password)
            THEN Reply(Resp(op, Anonymous, 0, 401, "Invalid email or password"))
       ELSE IF ~users[uid].is_active
            THEN Reply(Resp(op, Anonymous, 0, 401, "Account is disabled"))
       ELSE /\ clock <= MaxClock
            /\ users' = [users EXCEPT ![uid].last_login = clock]
            /\ clock' = clock + 1
            /\ tokens' = tokens \cup {[uid |-> uid, role |-> users[uid].role]}
            /\ refresh_tokens' = refresh_tokens \cup {uid}
            /\ last' = Resp(op, [uid |-> uid, role |-> users[uid].role], 0, 200,
                            "access_token refresh_token")
            /\ UNCHANGED <<projects, members, tasks, comments, attachments,
                           next_project, next_task, next_comment, inflight, next_user,
                           adding, updating>>

refresh_skips_active_check(user_id) ==
    /\ user_id \in refresh_tokens
    /\ tokens' = tokens \cup {[uid |-> user_id, role |-> users[user_id].role]}
    /\ last' = Resp("refresh", [uid |-> user_id, role |-> NULL], 0, 200, "access_token")
    /\ UNCHANGED <<users, projects, members, tasks, comments, attachments,
                   next_project, next_task, next_comment, clock, auth>>
\* user_id: the identity of the refresh token presented
refresh(user_id) ==
    /\ user_id \in refresh_tokens
    /\ IF user_id \notin DOMAIN users \/ ~users[user_id].is_active
       THEN Reply(Resp("refresh", [uid |-> user_id, role |-> NULL], 0, 401, NULL))
       ELSE /\ tokens' = tokens \cup {[uid |-> user_id, role |-> users[user_id].role]}
            /\ last' = Resp("refresh", [uid |-> user_id, role |-> NULL], 0, 200,
                            "access_token")
            /\ UNCHANGED <<users, projects, members, tasks, comments, attachments,
                           next_project, next_task, next_comment, clock, auth>>

\* ------------------------------------------------------------ users.py
\* a PUT /users/<id> body; current_password: <<>> for a payload without it;
\* is_active: "true", "false" for the JSON booleans
UserPayload(full_name, email, current_password, new_password, role, is_active) ==
    [full_name |-> full_name, email |-> email,
     current_password |-> current_password, new_password |-> new_password,
     role |-> role, is_active |-> is_active]

UserKeys(pl) ==
    {k \in {"full_name", "email", "new_password"} : pl[k].present}
       \cup {k \in {"role", "is_active"} : pl[k] # ABSENT}
       \cup (IF pl.current_password # <<>> THEN {"current_password"} ELSE {})

email_step(r, f, user_id) ==
    LET new_email == Lower(Strip(f.v))
    IN IF r.code # 200 \/ ~f.present THEN r
       ELSE IF f.null THEN [r EXCEPT !.code = 500]
       ELSE IF ~validate_email(new_email) THEN [r EXCEPT !.code = 400]
       ELSE IF user_by_email(new_email) \ {user_id} # {} THEN [r EXCEPT !.code = 409]
       ELSE [r EXCEPT !.obj.email = new_email]

current_password_step(r, pl) ==
    IF r.code # 200 \/ ~(pl.email.present \/ pl.new_password.present) THEN r
    ELSE IF pl.current_password = <<>> THEN [r EXCEPT !.code = 400]
    ELSE IF ~check_password(r.obj.password_hash, pl.current_password)
         THEN [r EXCEPT !.code = 401]
    ELSE r

new_password_step(r, f) ==
    IF r.code # 200 \/ ~f.present THEN r
    ELSE IF f.null THEN [r EXCEPT !.code = 500]
    ELSE IF ~validate_password(f.v).ok THEN [r EXCEPT !.code = 400]
    ELSE [r EXCEPT !.obj.password_hash = set_password(f.v)]

role_step(r, role) ==
    IF r.code # 200 \/ role = ABSENT THEN r
    ELSE IF role = NULL THEN [r EXCEPT !.code = 500]
    ELSE IF role \notin Roles THEN [r EXCEPT !.code = 400]
    ELSE [r EXCEPT !.obj.role = role]

is_active_step(r, flag) ==
    IF r.code # 200 \/ flag = ABSENT THEN r
    ELSE [r EXCEPT !.obj.is_active = (flag = "true")]

\* the walk of update_user through the payload, on the user's own record or
\* as an administrator
user_walk(user, user_id, pl, is_self) ==
    LET r1 == text_step(Walk(user), pl.full_name, "full_name", 2)
    IN IF is_self
       THEN new_password_step(
               email_step(current_password_step(r1, pl), pl.email, user_id),
               pl.new_password)
       ELSE is_active_step(role_step(email_step(r1, pl.email, user_id), pl.role),
                           pl.is_active)

update_user(tok, user_ref, pl) ==
    LET op == "update_user"
        is_self == StrEq(tok.uid, user_ref)
        user_id == user_ref.id
    IN IF ~is_self /\ ~is_global_admin(tok)
       THEN Reply(Resp(op, tok, 0, 403, user_id))
       ELSE IF user_id \notin DOMAIN users THEN Reply(Resp(op, tok, 0, 404, user_id))
       ELSE IF UserKeys(pl) = {} THEN Reply(Resp(op, tok, 0, 400, user_id))
       ELSE LET r == user_walk(users[user_id], user_id, pl, is_self)
            IN /\ users' = [users EXCEPT ![user_id] =
                               session_end(r.code = 200, @, r.obj)]
               /\ last' = Resp(op, tok, 0, r.code, user_id)
               /\ UNCHANGED <<tokens, projects, members, tasks, comments,
                              attachments, next_project, next_task, next_comment,
                              clock, auth>>

deactivate_user(tok, user_ref) ==
    LET op == "deactivate_user"
        user_id == user_ref.id
    IN IF ~is_global_admin(tok) THEN Reply(Resp(op, tok, 0, 403, user_id))
       ELSE IF StrEq(tok.uid, user_ref) THEN Reply(Resp(op, tok, 0, 400, user_id))
       ELSE IF user_id \notin DOMAIN users THEN Reply(Resp(op, tok, 0, 404, user_id))
       ELSE /\ users' = [users EXCEPT ![user_id].is_active = FALSE]
            /\ last' = Resp(op, tok, 0, 200, user_id)
            /\ UNCHANGED <<tokens, projects, members, tasks, comments, attachments,
                           next_project, next_task, next_comment, clock, auth>>

\* ------------------------------------------------------------ @jwt_required
\* the handlers registered under /api
list_users(tok) ==
    IF ~is_global_admin(tok) THEN Reply(Resp("list_users", tok, 0, 403, NULL))
    ELSE Reply(Resp("list_users", tok, 0, 200, NULL))

get_user_any_caller(tok, user_ref) ==
    IF user_ref.id \notin DOMAIN users
    THEN Reply(Resp("get_user", tok, 0, 404, user_ref.id))
    ELSE Reply(Resp("get_user", tok, 0, 200, user_ref.id))
\* info: the id of the URL
get_user(tok, user_ref) ==
    LET op == "get_user"
    IN IF ~StrEq(tok.uid, user_ref) /\ ~is_global_admin(tok)
       THEN Reply(Resp(op, tok, 0, 403, user_ref.id))
       ELSE IF user_ref.id \notin DOMAIN users
            THEN Reply(Resp(op, tok, 0, 404, user_ref.id))
       ELSE Reply(Resp(op, tok, 0, 200, user_ref.id))

ApiRoutes == {"register", "login", "refresh", "get_current_user", "logout",
              "validate_token",
              "list_projects", "create_project", "get_project", "update_project",
              "delete_project", "add_member", "remove_member",
              "list_tasks", "create_task", "get_task", "update_task",
              "delete_task", "add_comment", "upload_attachment",
              "list_users", "get_user", "update_user", "deactivate_user"}

JwtRequired_forgets_logout == ApiRoutes \ {"register", "login", "logout"}
\* the handlers under a @jwt_required decorator
JwtRequired == {"refresh", "get_current_user", "logout", "validate_token",
                "list_projects", "create_project", "get_project", "update_project",
                "delete_project", "add_member", "remove_member",
                "list_tasks", "create_task", "get_task", "update_task",
                "delete_task", "add_comment", "upload_attachment",
                "list_users", "get_user", "update_user", "deactivate_user"}

\* @jwt_required(refresh=True)
WantsRefresh == {"refresh"}

\* what the Authorization header can hold: nothing, text that is no JWT or
\* fails its signature, an expired token, a good access or refresh token
Bearers == {"bearer none", "bearer malformed", "bearer expired",
            "bearer access", "bearer refresh"}

verify_jwt_in_request(op, bearer) ==
    bearer = (IF op \in WantsRefresh THEN "bearer refresh" ELSE "bearer access")

\* The decorator alone: 401 from the loader callbacks, or code 0 for a
\* request handed on to the view function.
jwt_required(op, bearer) ==
    IF op \in JwtRequired /\ ~verify_jwt_in_request(op, bearer)
    THEN Reply(Resp(op, Anonymous, 0, 401, bearer))
    ELSE Reply(Resp(op, Anonymous, 0, 0, bearer))

\* ------------------------------------------------------------ initial state
\* Two registered, active users, each holding the tokens login issued.
Init ==
    /\ users = [u \in UserIds |->
                  [email |-> IF u = "u1" THEN MailA ELSE MailC,
                   password_hash |-> set_password(PwGood),
                   full_name |-> NameA,
                   role |-> IF u = "u1" THEN "ADMIN" ELSE "MEMBER",
                   is_active |-> TRUE,
                   last_login |-> 0]]
    /\ tokens = {[uid |-> u, role |-> users[u].role] : u \in UserIds}
    /\ refresh_tokens = UserIds
    /\ inflight = {}
    /\ next_user = 1
    /\ adding = {}
    /\ updating = {}
    /\ projects = << >>
    /\ members = {}
    /\ tasks = << >>
    /\ comments = << >>
    /\ attachments = {}
    /\ next_project = 1
    /\ next_task = 1
    /\ next_comment = 1
    /\ clock = 1
    /\ last = NoRequest

\* ------------------------------------------------------------ payloads
\* bodies that carry a name or a status and nothing else that is kept
NamePayloads ==
    {ProjectPayload(n, NoField, ABSENT, ABSENT, o) : n \in UpdateNames, o \in BOOLEAN}
StatusPayloads ==
    {TaskPayload(NoField, NoField, s, ABSENT, ABSENT, o) :
        s \in StatusInputs, o \in BOOLEAN}

\* bodies of one key, over every key that is kept and every value of it, and
\* some bodies of two keys
ProjectPayloads ==
    {pl \in {ProjectPayload(n, d, s, e, FALSE) :
                n \in {Field(NameB), NoField},
                d \in DescrInputs,
                s \in {"D2", NULL, ABSENT},
                e \in {"D1", NULL, ABSENT}} :
        Cardinality(ProjectKeys(pl)) = 1}
    \cup {ProjectPayload(Field(NameB), NoField, ABSENT, "D1", FALSE),
          ProjectPayload(NoField, Field(Descr), "D2", ABSENT, FALSE)}
TaskPayloads ==
    {pl \in {TaskPayload(t, d, s, a, due, FALSE) :
                t \in {Field(NameB), NoField},
                d \in DescrInputs,
                s \in {"TODO", "DONE", ABSENT},
                a \in {"u2", NULL, ABSENT},
                due \in {"D1", NULL, ABSENT}} :
        Cardinality(TaskKeys(pl)) = 1}
    \cup {TaskPayload(Field(NameB), NoField, "DONE", ABSENT, ABSENT, FALSE),
          TaskPayload(NoField, Field(Descr), ABSENT, "u2", ABSENT, FALSE),
          TaskPayload(NoField, NoField, ABSENT, NULL, "D1", FALSE)}

\* an administrator switching an account off and on
AccountPayloads ==
    {UserPayload(NoField, NoField, <<>>, NoField, ABSENT, a) : a \in {"true", "false"}}
\* a change of e-mail
MailPayloads ==
    {UserPayload(NoField, Field(m), pw, NoField, ABSENT, ABSENT) :
        m \in {MailB, MailC}, pw \in {PwGood, <<>>}}

\* bodies whose first key is stored in the session before a later key fails
FailingTaskPayloads ==
    {TaskPayload(Field(NameB), NoField, s, a, ABSENT, FALSE) :
        s \in {"BOGUS", NULL, ABSENT}, a \in {UnknownUser, ABSENT}}
FailingProjectPayloads ==
    {ProjectPayload(Field(NameB), d, s, "D1", FALSE) :
        d \in {NullField, NoField}, s \in {"D2", "bad", ABSENT}}
FailingUserPayloads ==
    {UserPayload(Field(NameB), e, pw, np, r, ABSENT) :
        e \in {Field(MailC), Field(MailBad), NoField},
        pw \in {PwGood, PwOther, <<>>},
        np \in {Field(PwShort), NoField},
        r \in {"BOGUS", ABSENT}}

\* ------------------------------------------------------------ next-state
Requests(forms) ==
    \/ \E tok \in tokens, n \in CreateNames : create_project(tok, n, FALSE)
    \/ \E tok \in tokens, p \in ProjectIds : get_project(tok, p)
    \/ \E tok \in tokens, p \in ProjectIds, pl \in NamePayloads :
          update_project(tok, p, pl)
    \/ \E tok \in tokens, p \in ProjectIds : delete_project(tok, p)
    \/ \E tok \in tokens, p \in ProjectIds, u \in MemberInputs, r \in RoleInputs :
          add_member(tok, p, u, r)
    \/ \E tok \in tokens, p \in ProjectIds, u \in UserIds \cup {UnknownUser},
          f \in forms : remove_member(tok, p, Ref(u, f))
    \/ \E tok \in tokens, p \in ProjectIds \cup {0}, t \in TitleInputs,
          s \in CreateStatusInputs : create_task(tok, p, t, s)
    \/ \E tok \in tokens, t \in TaskIds : get_task(tok, t)
    \/ \E tok \in tokens, t \in TaskIds, pl \in StatusPayloads :
          update_task(tok, t, pl)
    \/ \E tok \in tokens, t \in TaskIds : delete_task(tok, t)
    \/ \E tok \in tokens, t \in TaskIds, f \in forms, c \in BOOLEAN,
          par \in CommentIds \cup {0} : add_comment(tok, Ref(t, f), c, par)
    \/ \E tok \in tokens, t \in TaskIds : upload_attachment(tok, t)

Next == Requests(Forms)

Spec == Init /\ [][Next]_vars

\* The same requests with every UUID spelled canonically.
NextCanonical == Requests({"canon"})

SpecCanonical == Init /\ [][NextCanonical]_vars

\* The Task entity methods next to the handlers that create and update tasks.
NextTask ==
    \/ \E tok \in tokens : create_project(tok, NameA, FALSE)
    \/ \E tok \in tokens, p \in ProjectIds, s \in CreateStatusInputs :
          create_task(tok, p, NameA, s)
    \/ \E tok \in tokens, t \in TaskIds, pl \in StatusPayloads :
          update_task(tok, t, pl)
    \/ \E t \in TaskIds : mark_complete(t)
    \/ \E t \in TaskIds, pos \in PositionInputs, s \in {NULL, "TODO", "DONE"} :
          update_position(t, pos, s)

SpecTask == Init /\ [][NextTask]_vars

\* Registration, next to a user changing the e-mail of an account.
NextRegister ==
    \/ \E e \in {MailB, MailBShouted, MailA, MailBad, MailShortTld},
          pw \in {PwGood, PwLong, PwShort}, n \in {NameA, <<"a", " ">>},
          r \in {ABSENT, "BOGUS"} : register(e, pw, n, r)
    \/ \E req \in inflight : register_commit(req)
    \/ \E tok \in tokens, pl \in MailPayloads : update_user(tok, Ref("u2", "canon"), pl)

SpecRegister == Init /\ [][NextRegister]_vars

\* Registration with every password.
NextPassword ==
    \/ \E e \in {MailB, MailBShouted, MailBad}, pw \in Passwords,
          n \in {NameA, <<"a", " ">>} : register(e, pw, n, ABSENT)
    \/ \E req \in inflight : register_commit(req)

SpecPassword == Init /\ [][NextPassword]_vars

\* Login and token refresh, next to the handlers that switch an account off
\* and on.
NextLogin ==
    \/ \E e \in {MailA, MailCShouted, MailB, <<" ">>}, pw \in {PwGood, PwOther, <<>>} :
          login(e, pw)
    \/ \E u \in refresh_tokens : refresh(u)
    \/ \E tok \in tokens, u \in UserIds \cup {UnknownUser}, f \in Forms :
          deactivate_user(tok, Ref(u, f))
    \/ \E tok \in tokens, u \in UserIds, f \in Forms, pl \in AccountPayloads :
          update_user(tok, Ref(u, f), pl)

SpecLogin == Init /\ [][NextLogin]_vars

\* Updates over every key of the payload.
NextUpdate ==
    \/ \E tok \in tokens : create_project(tok, NameA, FALSE)
    \/ \E tok \in tokens, p \in ProjectIds : add_member(tok, p, "u2", "MEMBER")
    \/ \E tok \in tokens, p \in ProjectIds : create_task(tok, p, NameA, ABSENT)
    \/ \E tok \in tokens, t \in TaskIds, pl \in TaskPayloads : update_task(tok, t, pl)
    \/ \E tok \in tokens, p \in ProjectIds, pl \in ProjectPayloads :
          update_project(tok, p, pl)

SpecUpdate == Init /\ [][NextUpdate]_vars

\* The handlers that write, with requests that fail at each of their exits.
NextTxn ==
    \/ \E tok \in tokens, n \in {NameA, <<"a">>}, e \in BOOLEAN :
          create_project(tok, n, e)
    \/ \E tok \in tokens, p \in ProjectIds, u \in {"u2", UnknownUser},
          r \in {"MEMBER", "BOGUS"} : add_member(tok, p, u, r)
    \/ \E tok \in tokens, p \in ProjectIds, u \in {"u1", UnknownUser} :
          remove_member(tok, p, Ref(u, "canon"))
    \/ \E tok \in tokens, p \in ProjectIds : delete_project(tok, p)
    \/ \E tok \in tokens, p \in ProjectIds, s \in {"BOGUS", ABSENT} :
          create_task(tok, p, NameA, s)
    \/ \E tok \in tokens, t \in TaskIds, pl \in FailingTaskPayloads :
          update_task(tok, t, pl)
    \/ \E tok \in tokens, t \in TaskIds : delete_task(tok, t)
    \/ \E tok \in tokens, t \in TaskIds, c \in BOOLEAN :
          add_comment(tok, Ref(t, "canon"), c, 0)
    \/ \E tok \in tokens, p \in ProjectIds, pl \in FailingProjectPayloads :
          update_project(tok, p, pl)
    \/ \E tok \in tokens, u \in UserIds, pl \in FailingUserPayloads :
          update_user(tok, Ref(u, "canon"), pl)
    \/ \E tok \in tokens, u \in {"u1", UnknownUser} :
          deactivate_user(tok, Ref(u, "canon"))
    \/ \E e \in {MailA, MailBad}, pw \in {PwGood, PwShort} :
          register(e, pw, NameA, ABSENT)
    \/ \E pw \in {PwOther, <<>>} : login(MailA, pw)

SpecTxn == Init /\ [][NextTxn]_vars

\* Requests whose Authorization header is checked by the decorator, against
\* a store that holds a project, a task and a comment.
NextBearer ==
    \/ \E tok \in tokens : create_project(tok, NameA, FALSE)
    \/ \E tok \in tokens, p \in ProjectIds : create_task(tok, p, NameA, ABSENT)
    \/ \E tok \in tokens, t \in TaskIds : add_comment(tok, Ref(t, "canon"), TRUE, 0)
    \/ \E op \in ApiRoutes, bearer \in Bearers : jwt_required(op, bearer)

SpecBearer == Init /\ [][NextBearer]_vars

\* an administrator's bodies for another account: a role or the active flag
ManagePayloads ==
    {UserPayload(NoField, NoField, <<>>, NoField, r, ABSENT) : r \in {"ADMIN", "MEMBER"}}
       \cup AccountPayloads

\* the users routes, with login handing out tokens of the role stored then
\* and create_project and get_project as requests of the project routes
NextUsers ==
    \/ \E tok \in tokens : list_users(tok)
    \/ \E tok \in tokens, u \in UserIds \cup {UnknownUser}, f \in Forms :
          get_user(tok, Ref(u, f))
    \/ \E tok \in tokens, u \in UserIds, f \in Forms, pl \in ManagePayloads :
          update_user(tok, Ref(u, f), pl)
    \/ \E tok \in tokens, u \in UserIds, f \in Forms : deactivate_user(tok, Ref(u, f))
    \/ \E e \in {MailA, MailC} : login(e, PwGood)
    \/ \E tok \in tokens : create_project(tok, NameA, FALSE)
    \/ \E tok \in tokens, p \in ProjectIds : get_project(tok, p)

SpecUsers == Init /\ [][NextUsers]_vars

\* the membership routes, add_member also as two steps that interleave
NextMembers ==
    \/ \E tok \in tokens : create_project(tok, NameA, FALSE)
    \/ \E tok \in tokens, p \in ProjectIds, u \in UserIds, r \in {"MEMBER", "MANAGER"} :
          add_member(tok, p, u, r)
    \/ \E tok \in tokens, p \in ProjectIds, u \in UserIds, r \in {"MEMBER", "MANAGER"} :
          add_member_lookup(tok, p, u, r)
    \/ \E req \in adding : add_member_commit(req)
    \/ \E tok \in tokens, p \in ProjectIds : remove_member(tok, p, Ref("u2", "canon"))
    \/ \E tok \in tokens, p \in ProjectIds : delete_project(tok, p)

SpecMembers == Init /\ [][NextMembers]_vars

\* add_member over every project role, with a user registered meanwhile
NextGrant ==
    \/ register(MailB, PwGood, NameA, ABSENT)
    \/ \E req \in inflight : register_commit(req)
    \/ \E tok \in tokens : create_project(tok, NameA, FALSE)
    \/ \E tok \in tokens, p \in ProjectIds, u \in {"u2", NewUserIds[1]}, r \in Roles :
          add_member(tok, p, u, r)

SpecGrant == Init /\ [][NextGrant]_vars

\* comment threads over two tasks
NextComments ==
    \/ \E tok \in tokens : create_project(tok, NameA, FALSE)
    \/ \E tok \in tokens, p \in ProjectIds :
          create_task_within(MaxThreadTasks, tok, p, NameA, ABSENT, ABSENT)
    \/ \E tok \in tokens, t \in ThreadTaskIds, par \in 0..(MaxThread + 1) :
          add_comment_within(MaxThread, tok, Ref(t, "canon"), TRUE, par)
    \/ \E tok \in tokens, t \in ThreadTaskIds : delete_task(tok, t)

SpecComments == Init /\ [][NextComments]_vars

\* bodies whose only key is assigned_to_id
AssignPayloads ==
    {TaskPayload(NoField, NoField, ABSENT, a, ABSENT, FALSE) :
        a \in {"u2", UnknownUser, NULL}}

\* create_task and update_task with an assignee, around u2's membership
NextAssign ==
    \/ \E tok \in tokens : create_project(tok, NameA, FALSE)
    \/ \E tok \in tokens, p \in ProjectIds : add_member(tok, p, "u2", "MEMBER")
    \/ \E tok \in tokens, p \in ProjectIds : remove_member(tok, p, Ref("u2", "canon"))
    \/ \E tok \in tokens, p \in ProjectIds, a \in {"u2", UnknownUser, ABSENT} :
          create_task_within(MaxTasks, tok, p, NameA, ABSENT, a)
    \/ \E tok \in tokens, t \in TaskIds, pl \in AssignPayloads : update_task(tok, t, pl)

SpecAssign == Init /\ [][NextAssign]_vars

\* bodies whose only key is one of the two dates
DatePayloads ==
    {ProjectPayload(NoField, NoField, s, ABSENT, FALSE) : s \in Dates \cup {NULL}}
       \cup {ProjectPayload(NoField, NoField, ABSENT, e, FALSE) : e \in Dates \cup {NULL}}

\* create_project and update_project over the dates, update_project also as
\* two steps that interleave
NextDates ==
    \/ \E tok \in tokens, s \in {"D2", ABSENT}, e \in {"D1", ABSENT} :
          create_project_with(tok, NameA, s, e, FALSE)
    \/ \E tok \in tokens, p \in ProjectIds, pl \in DatePayloads :
          update_project(tok, p, pl)
    \/ \E tok \in tokens, p \in ProjectIds, pl \in DatePayloads :
          update_project_load(tok, p, pl)
    \/ \E req \in updating : update_project_commit(req)

SpecDates == Init /\ [][NextDates]_vars
\* ======================================================================
\* Properties
\* ======================================================================
AccessOps == {"get_project", "update_project", "delete_project", "add_member",
              "remove_member", "create_task", "get_task", "update_task",
              "delete_task", "add_comment"}

is_owner_record(m) ==
    /\ m.role = "ADMIN"
    /\ m.project_id \in DOMAIN projects
    /\ m.user_id = projects[m.project_id].owner_id

\* C1: in the ten project and task handlers that authorize against a project,
\* a caller whose token role is ADMIN is never answered 403, member or not.
C1_AdminNeverForbidden ==
    (last.op \in AccessOps /\ last.role = "ADMIN") => last.code # 403

\* an ADMIN-token caller updated a task of a project it is no member of
C1_Witness ==
    /\ last.op = "update_task" /\ last.role = "ADMIN" /\ last.code = 200
    /\ last.id \in DOMAIN tasks
    /\ get_user_project_role(tasks[last.id].project_id, last.uid) = NULL

\* C2: a non-ADMIN caller gets 403 from get_project on a project it has no
\* membership in; a successful add_member for that caller turns the answer
\* into 200 with user_role equal to the role of the new membership.
C2_MemberSeesProject ==
    [][ /\ (last'.op = "get_project" /\ last'.role # "ADMIN"
              /\ last'.id \in DOMAIN projects) =>
               LET r == get_user_project_role(last'.id, last'.uid)
               IN IF r = NULL THEN last'.code = 403
                  ELSE last'.code = 200 /\ last'.info = r
        /\ (last'.op = "add_member" /\ last'.code = 201) =>
               \E m \in members' \ members :
                  /\ m.project_id = last'.id
                  /\ m.user_id = last'.info
                  /\ \A tok \in tokens :
                        (tok.uid = m.user_id /\ tok.role # "ADMIN") =>
                           /\ get_project_reply(tok, m.project_id).code = 403
                           /\ get_project_reply(tok, m.project_id)'.code = 200
                           /\ get_project_reply(tok, m.project_id)'.info = m.role
      ]_vars

\* a non-ADMIN caller who is not the owner read the project it was added to
C2_Witness ==
    /\ last.op = "get_project" /\ last.role # "ADMIN" /\ last.code = 200
    /\ last.id \in DOMAIN projects
    /\ projects[last.id].owner_id # last.uid
    /\ last.info = get_user_project_role(last.id, last.uid)
    /\ last.info \in Roles

\* C3 (as claimed): update_project answers 403 and changes nothing for a
\* non-ADMIN caller with project role MEMBER or VIEWER, and passes
\* authorization for the project owner and for project roles ADMIN and MANAGER.
C3_UpdateProjectByRole ==
    [][ (last'.op = "update_project" /\ last'.role # "ADMIN"
           /\ last'.id \in DOMAIN projects) =>
            LET r == get_user_project_role(last'.id, last'.uid)
            IN /\ r \in {"MEMBER", "VIEWER"} =>
                    last'.code = 403 /\ projects' = projects
               /\ r \in {"ADMIN", "MANAGER"} => last'.code \in {200, 400}
               /\ projects[last'.id].owner_id = last'.uid =>
                    last'.code \in {200, 400}
      ]_vars

\* C4 (as claimed): update_task and delete_task answer 403, and change no
\* task, for a non-ADMIN caller without a membership in the task's project,
\* whoever reported the task.
C4_NonMemberCannotModifyTask ==
    [][ (last'.op \in {"update_task", "delete_task"} /\ last'.role # "ADMIN"
           /\ last'.id \in DOMAIN tasks
           /\ get_user_project_role(tasks[last'.id].project_id, last'.uid) = NULL)
          => (last'.code = 403 /\ tasks' = tasks)
      ]_vars

\* C5: for a non-ADMIN caller who is a member of the task's project,
\* update_task and delete_task pass authorization when the caller reported
\* the task, whatever its project role, and answer 403 when it did not and
\* its project role is MEMBER or VIEWER.
C5_ReporterMayModifyTask ==
    [][ (last'.op \in {"update_task", "delete_task"} /\ last'.role # "ADMIN"
           /\ last'.id \in DOMAIN tasks) =>
            LET task == tasks[last'.id]
                r == get_user_project_role(task.project_id, last'.uid)
            IN r # NULL =>
                 /\ task.reporter_id = last'.uid => last'.code \in {200, 400}
                 /\ (task.reporter_id # last'.uid /\ r \in {"MEMBER", "VIEWER"}) =>
                        (last'.code = 403 /\ tasks' = tasks)
      ]_vars

\* a non-ADMIN reporter with project role MEMBER or VIEWER updated its task
C5_Witness ==
    /\ last.op = "update_task" /\ last.role # "ADMIN" /\ last.code = 200
    /\ last.id \in DOMAIN tasks
    /\ tasks[last.id].reporter_id = last.uid
    /\ get_user_project_role(tasks[last.id].project_id, last.uid)
          \in {"MEMBER", "VIEWER"}

\* C6 (as claimed): remove_member never deletes the ADMIN membership of the
\* project's owner; the membership table is as it was.
C6_OwnerMembershipKept ==
    [][ last'.op = "remove_member" =>
          \A m \in members : is_owner_record(m) => m \in members' ]_vars

\* C7 (as claimed): delete_project succeeds only for the user stored in
\* owner_id or for an ADMIN token.
C7_OnlyOwnerDeletes ==
    [][ (last'.op = "delete_project" /\ last'.code = 200) =>
          \/ last'.role = "ADMIN"
          \/ projects[last'.id].owner_id = last'.uid ]_vars

\* C8: a successful delete_project leaves no task, membership, comment or
\* attachment of the project, and from then on get_task answers 404 to every
\* caller for each task id that was handed out and is no longer stored.
C8_DeleteCascades ==
    [][ /\ (last'.op = "delete_project" /\ last'.code = 200) =>
              LET gone == project_tasks(last'.id)
              IN /\ last'.id \notin DOMAIN projects'
                 /\ \A m \in members' : m.project_id # last'.id
                 /\ \A t \in DOMAIN tasks' : tasks'[t].project_id # last'.id
                 /\ \A c \in DOMAIN comments' : comments'[c].task_id \notin gone
                 /\ \A a \in attachments' : a.task_id \notin gone
                 /\ \A t \in gone, tok \in tokens :
                       get_task_reply(tok, t)'.code = 404
        /\ \A t \in TaskIds :
              (t < next_task /\ t \notin DOMAIN tasks) =>
                 /\ t \notin DOMAIN tasks'
                 /\ \A tok \in tokens : get_task_reply(tok, t)'.code = 404
        /\ \A t \in DOMAIN tasks' : tasks'[t].project_id \in DOMAIN projects'
        /\ \A c \in DOMAIN comments' : comments'[c].task_id \in DOMAIN tasks'
      ]_vars

\* a project whose task carried a comment was deleted, and all of it is gone
C8_Witness ==
    /\ last.op = "delete_project" /\ last.code = 200
    /\ last.info = "TASKS_COMMENTS"
    /\ DOMAIN tasks = {} /\ DOMAIN comments = {} /\ members = {}

\* C9 (as claimed): a successful update_task that moves a task into DONE
\* leaves it with a completed_at.
C9_DoneStampsCompletion ==
    [][ (last'.op = "update_task" /\ last'.code = 200 /\ last'.info = "DONE"
           /\ tasks[last'.id].status # "DONE")
          => tasks'[last'.id].completed_at # 0 ]_vars

\* C10 (as claimed): a task has a completed_at exactly when its status is DONE.
C10_CompletedIffDone ==
    \A t \in DOMAIN tasks : (tasks[t].completed_at # 0) <=> (tasks[t].status = "DONE")


\* C11: a step of update_task or Task.update_position that takes a task out
\* of DONE leaves its completed_at as it was.
C11_LeavingDoneKeepsStamp ==
    [][ \A t \in DOMAIN tasks :
          (/\ last'.op \in {"update_task", "update_position"}
           /\ last'.id = t
           /\ t \in DOMAIN tasks'
           /\ tasks[t].status = "DONE"
           /\ tasks'[t].status # "DONE")
          => tasks'[t].completed_at = tasks[t].completed_at ]_vars

\* update_task moved a stamped task back to TODO and the stamp is still there
C11_Witness ==
    /\ last.op = "update_task" /\ last.code = 200 /\ last.info = "TODO"
    /\ last.id \in DOMAIN tasks
    /\ tasks[last.id].status = "TODO"
    /\ tasks[last.id].completed_at # 0

UniqueEmails ==
    \A u \in DOMAIN users, v \in DOMAIN users :
       (u # v) => (users[u].email # users[v].email)

\* a register request that passes every check before the lookup of the email
WellFormed(e, pw, n, r) ==
    /\ validate_email(Lower(Strip(e)))
    /\ validate_password(pw).ok
    /\ Len(Strip(n)) >= 2
    /\ r \in Roles \cup {ABSENT}

\* C12: register for an email that, stripped and lower-cased, is the email of
\* a user answers 409 and creates no user; a register answered 201 created
\* exactly one user, whose email no user had; no two users ever have the
\* same email, also when registrations for one email interleave.
C12_EmailUnique ==
    [][ /\ UniqueEmails'
        /\ \A u \in DOMAIN users' : Lower(Strip(users'[u].email)) = users'[u].email
        /\ \A e \in {MailB, MailBShouted, MailA}, pw \in {PwGood, PwLong},
              n \in {NameA}, r \in {ABSENT} :
              (/\ register(e, pw, n, r)
               /\ WellFormed(e, pw, n, r)
               /\ \E u \in DOMAIN users : users[u].email = Lower(Strip(e)))
              => (last'.code = 409 /\ users' = users)
        /\ (last'.op = "register" /\ last'.code = 409) => users' = users
        /\ (last'.op = "register" /\ last'.code = 201 /\ last' # last) =>
              \E u \in DOMAIN users' \ DOMAIN users :
                 /\ DOMAIN users' = DOMAIN users \cup {u}
                 /\ \A v \in DOMAIN users : users[v].email # users'[u].email
                 /\ \A v \in DOMAIN users : users'[v] = users[v]
      ]_vars

\* two registrations for one email were in flight together: the INSERT of the
\* second was refused, and the email belongs to the user the first created
C12_Witness ==
    /\ last.op = "register" /\ last.code = 409 /\ last.id # 0
    /\ \E u \in DOMAIN users \ UserIds : users[u].email = MailB
    /\ Cardinality(user_by_email(MailB)) = 1

HasChar(pw, class) == \E i \in 1..Len(pw) : pw[i] \in class

Strong(pw) ==
    /\ Len(pw) >= 8
    /\ HasChar(pw, UpperLetters)
    /\ HasChar(pw, LowerLetters)
    /\ HasChar(pw, Digits)

\* the message of the first rule a weak password fails, in the order length,
\* uppercase, lowercase, digit
FirstFailing(pw) ==
    CASE Len(pw) < 8 -> "Password must be at least 8 characters long"
      [] Len(pw) >= 8 /\ ~HasChar(pw, UpperLetters)
           -> "Password must contain at least one uppercase letter"
      [] Len(pw) >= 8 /\ HasChar(pw, UpperLetters) /\ ~HasChar(pw, LowerLetters)
           -> "Password must contain at least one lowercase letter"
      [] OTHER -> "Password must contain at least one number"

\* C13: validate_password accepts exactly the passwords of at least 8
\* characters with an uppercase letter, a lowercase letter and a digit; for any
\* other password register (given a well-formed email) answers 400 with the
\* message of the first failing rule and creates no user.
C13_PasswordPolicy ==
    [][ \A pw \in Passwords :
          /\ validate_password(pw).ok <=> Strong(pw)
          /\ \A e \in {MailB, MailBShouted}, n \in {NameA, <<"a", " ">>} :
                (register(e, pw, n, ABSENT) /\ ~Strong(pw)) =>
                   /\ last'.code = 400
                   /\ last'.info = FirstFailing(pw)
                   /\ users' = users
                   /\ inflight' = inflight
      ]_vars

\* register refused a password of eight characters for its missing uppercase
\* letter
C13_Witness ==
    /\ last.op = "register" /\ last.code = 400
    /\ last.info = "Password must contain at least one uppercase letter"
    /\ DOMAIN users = UserIds

\* C14: a login that carries an email and a password answers 401, issues no
\* token and changes no user when no user has the email, the password is not
\* the user's, or the account is inactive; otherwise it answers 200, stores
\* the time in last_login and returns an access and a refresh token.  No other
\* step changes a last_login.
C14_LoginFailsClosed ==
    [][ /\ \A e \in {MailA, MailCShouted, MailB}, pw \in {PwGood, PwOther} :
              login(e, pw) =>
                 LET found == {u \in DOMAIN users : users[u].email = Lower(Strip(e))}
                     refused == \/ found = {}
                                \/ \E u \in found :
                                      \/ users[u].password_hash # set_password(pw)
                                      \/ ~users[u].is_active
                 IN IF refused
                    THEN /\ last'.code = 401
                         /\ tokens' = tokens
                         /\ refresh_tokens' = refresh_tokens
                         /\ users' = users
                    ELSE /\ last'.code = 200
                         /\ \E u \in found :
                               /\ last'.uid = u
                               /\ users'[u].last_login = clock
                               /\ [uid |-> u, role |-> users[u].role] \in tokens'
                               /\ u \in refresh_tokens'
        /\ (last'.op = "login" /\ last'.code # 200) =>
              (users' = users /\ tokens' = tokens /\ refresh_tokens' = refresh_tokens)
        /\ \A u \in DOMAIN users :
              users'[u].last_login # users[u].last_login =>
                 (last'.op = "login" /\ last'.code = 200 /\ last'.uid = u)
      ]_vars

\* an inactive account was refused and has never logged in, after another
\* account logged in
C14_Witness ==
    /\ last.op = "login" /\ last.code = 401 /\ last.info = "Account is disabled"
    /\ ~users["u2"].is_active /\ users["u2"].last_login = 0
    /\ users["u1"].last_login # 0

\* C15: while a user's is_active is false, every refresh request that carries
\* that user's refresh token answers 401 and mints no access token; once
\* is_active is true again the refresh answers 200.
C15_RefreshNeedsActiveUser ==
    [][ last'.op = "refresh" =>
          /\ last'.uid \in refresh_tokens
          /\ IF users[last'.uid].is_active
             THEN last'.code = 200
             ELSE last'.code = 401 /\ tokens' = tokens /\ users' = users
      ]_vars

\* a deactivated member who logged in before is refused a new access token
C15_Witness ==
    /\ last.op = "refresh" /\ last.code = 401 /\ last.uid = "u2"
    /\ ~users["u2"].is_active
    /\ users["u2"].last_login # 0
    /\ "u2" \in refresh_tokens

\* C16: every handler under /api other than register and login answers a
\* request whose bearer token is missing, malformed, expired or of the wrong
\* kind with 401, and the request changes no stored state.
C16_BearerRequired ==
    [][ \A op \in ApiRoutes \ {"register", "login"}, bearer \in Bearers :
          ( /\ jwt_required(op, bearer)
            /\ \/ bearer \in {"bearer none", "bearer malformed", "bearer expired"}
               \/ bearer = (IF op = "refresh" THEN "bearer access" ELSE "bearer refresh") )
          => (last'.code = 401 /\ UNCHANGED store)
      ]_vars

\* a request to delete an existing project with an expired token was refused
C16_Witness ==
    /\ last.op = "delete_project" /\ last.code = 401 /\ last.info = "bearer expired"
    /\ 1 \in DOMAIN projects
    /\ 1 \in DOMAIN tasks

\* C17: every handler that targets a project or a task by id resolves the
\* entity before it authorizes: a request by an authenticated caller that
\* names an id that does not exist answers 404, never 403.
C17_ResolveBeforeAuthorize ==
    [][ /\ ( /\ last'.op \in {"get_project", "update_project", "delete_project",
                             "add_member", "remove_member"}
             /\ last'.id \notin DOMAIN projects )
           => last'.code = 404
        /\ ( /\ last'.op \in {"get_task", "update_task", "delete_task", "add_comment"}
             /\ last'.id \notin DOMAIN tasks )
           => last'.code = 404
      ]_vars

\* the payload key that writes a column
KeyOf(col) == IF col = "assignee_id" THEN "assigned_to_id" ELSE col

\* C18: a successful update_task or update_project changes only the fields
\* whose keys are present in the payload: every other stored field of the
\* target keeps its value, and no other entity changes.
C18_PartialUpdateFrame ==
    [][ /\ (last'.op = "update_task" /\ last'.code = 200) =>
              \A pl \in {q \in TaskPayloads : q.status = last'.info} :
                 update_task([uid |-> last'.uid, role |-> last'.role], last'.id, pl) =>
                    /\ DOMAIN tasks' = DOMAIN tasks
                    /\ \A o \in DOMAIN tasks \ {last'.id} : tasks'[o] = tasks[o]
                    /\ \A col \in DOMAIN tasks[last'.id] :
                          KeyOf(col) \notin TaskKeys(pl) =>
                             tasks'[last'.id][col] = tasks[last'.id][col]
                    /\ UNCHANGED <<users, projects, members, comments, attachments>>
        /\ (last'.op = "update_project" /\ last'.code = 200) =>
              \A pl \in ProjectPayloads :
                 update_project([uid |-> last'.uid, role |-> last'.role], last'.id, pl) =>
                    /\ DOMAIN projects' = DOMAIN projects
                    /\ \A o \in DOMAIN projects \ {last'.id} : projects'[o] = projects[o]
                    /\ \A col \in DOMAIN projects[last'.id] :
                          col \notin ProjectKeys(pl) =>
                             projects'[last'.id][col] = projects[last'.id][col]
                    /\ UNCHANGED <<users, members, tasks, comments, attachments>>
      ]_vars

\* a task whose five fields were set by several bodies of one or two keys:
\* the last one had no status key and the status set earlier is still there
C18_Witness ==
    /\ last.op = "update_task" /\ last.code = 200 /\ last.info = ABSENT
    /\ tasks[1].title = NameB
    /\ tasks[1].description = Descr
    /\ tasks[1].status = "DONE"
    /\ tasks[1].assignee_id = "u2"
    /\ tasks[1].due_date = "D1"

\* bodies whose only key is a nullable field with an explicit null
NullTaskPayloads ==
    {TaskPayload(NoField, NullField, ABSENT, ABSENT, ABSENT, FALSE),
     TaskPayload(NoField, NoField, ABSENT, NULL, ABSENT, FALSE),
     TaskPayload(NoField, NoField, ABSENT, ABSENT, NULL, FALSE)}
NullProjectPayloads ==
    {ProjectPayload(NoField, NullField, ABSENT, ABSENT, FALSE),
     ProjectPayload(NoField, NoField, NULL, ABSENT, FALSE),
     ProjectPayload(NoField, NoField, ABSENT, NULL, FALSE)}

\* the stored null of a column
NullOf(col) == IF col = "description" THEN <<>> ELSE NULL

\* C19: in update_task and update_project, a body that carries an explicit
\* null for a nullable field (task description, assigned_to_id, due_date;
\* project description, start_date, end_date), sent by a caller allowed to
\* update an existing target, succeeds with 200 and stores null in the field.
C19_NullClears ==
    [][ /\ (last'.op = "update_task" /\ last'.code \notin {403, 404}) =>
              \A pl \in NullTaskPayloads :
                 update_task([uid |-> last'.uid, role |-> last'.role], last'.id, pl) =>
                    /\ last'.code = 200
                    /\ \A col \in DOMAIN tasks[last'.id] :
                          KeyOf(col) \in TaskKeys(pl) => tasks'[last'.id][col] = NullOf(col)
        /\ (last'.op = "update_project" /\ last'.code \notin {403, 404}) =>
              \A pl \in NullProjectPayloads :
                 update_project([uid |-> last'.uid, role |-> last'.role], last'.id, pl) =>
                    /\ last'.code = 200
                    /\ \A col \in DOMAIN projects[last'.id] :
                          col \in ProjectKeys(pl) => projects'[last'.id][col] = NullOf(col)
      ]_vars

MutatingOps == {"register", "login", "create_project", "update_project",
                "delete_project", "add_member", "remove_member", "create_task",
                "update_task", "delete_task", "add_comment", "update_user",
                "deactivate_user"}

\* C20: when a request to a mutating handler ends in an error response (400,
\* 401, 403, 404, 409 or 500, an exception raised midway included), nothing
\* of the request is committed: every table equals what it was before the
\* request, and no token is issued.
C20_ErrorLeavesNoWrite ==
    [][ (last'.op \in MutatingOps /\ last'.code \in {400, 401, 403, 404, 409, 500}) =>
           UNCHANGED <<tables, tokens, refresh_tokens>>
      ]_vars

\* update_task assigned the new title in its session and then refused the
\* status: the stored title is the old one
C20_Witness ==
    /\ last.op = "update_task" /\ last.code = 400
    /\ 1 \in DOMAIN tasks
    /\ tasks[1].title = NameA

\* C21: list_users and deactivate_user succeed only for a caller whose token
\* role is ADMIN; get_user and update_user on a user succeed only when the
\* caller is that user or has token role ADMIN; every other caller is
\* answered 403 and no user record changes.
C21_UsersRoutesGuarded ==
    [][ /\ (last'.op \in {"list_users", "deactivate_user"} /\ last'.role # "ADMIN") =>
              (last'.code = 403 /\ users' = users)
        /\ ( /\ last'.op \in {"get_user", "update_user"}
             /\ last'.role # "ADMIN"
             /\ last'.uid # last'.info ) =>
              (last'.code = 403 /\ users' = users)
      ]_vars

\* a member asked for the administrator's record and was refused
C21_Witness ==
    /\ last.op = "get_user" /\ last.code = 403
    /\ last.uid = "u2" /\ last.info = "u1"

\* C25: the global-ADMIN bypass is granted only to callers whose User record
\* has role ADMIN at the time of the request: a caller whose stored role is
\* not ADMIN (for one, after update_user changed it from ADMIN) is refused by
\* list_users and deactivate_user, and sees a project only as a member of it.
C25_BypassFollowsStoredRole ==
    [][ /\ ( /\ last'.op \in {"list_users", "deactivate_user"}
             /\ users[last'.uid].role # "ADMIN" )
           => last'.code = 403
        /\ ( /\ last'.op = "get_project"
             /\ users[last'.uid].role # "ADMIN"
             /\ get_user_project_role(last'.id, last'.uid) = NULL )
           => last'.code # 200
      ]_vars

StateChangingOps == {"create_project", "update_project", "delete_project",
                     "add_member", "remove_member", "create_task", "update_task",
                     "delete_task", "add_comment", "update_user", "deactivate_user"}

\* C26: after a user is deactivated (is_active false), no request of that
\* user to a state-changing handler succeeds.
C26_InactiveCannotWrite ==
    [][ ( /\ last'.op \in StateChangingOps
          /\ last'.uid \in DOMAIN users
          /\ ~users[last'.uid].is_active )
        => last'.code \notin {200, 201}
      ]_vars

\* C28: update_user by a caller on the caller's own record never changes
\* that record's role or is_active, whatever the payload and the token role;
\* a role or an is_active flag changes only in a request of a caller with
\* token role ADMIN on another user's record.
C28_SelfUpdateKeepsRoleAndFlag ==
    [][ /\ (last'.op = "update_user" /\ last'.uid = last'.info /\ last'.uid \in DOMAIN users) =>
              /\ users'[last'.uid].role = users[last'.uid].role
              /\ users'[last'.uid].is_active = users[last'.uid].is_active
        /\ \A u \in DOMAIN users :
              ( \/ users'[u].role # users[u].role
                \/ users'[u].is_active # users[u].is_active ) =>
                 /\ last'.op \in {"update_user", "deactivate_user"}
                 /\ last'.role = "ADMIN"
                 /\ last'.uid # u
      ]_vars

\* C24: in every state reachable through the project and user handlers,
\* every existing project has a ProjectMember record for its owner_id with
\* role ADMIN.
C24_OwnerIsAdminMember ==
    \A p \in DOMAIN projects :
       \E m \in members :
          /\ m.project_id = p
          /\ m.user_id = projects[p].owner_id
          /\ m.role = "ADMIN"

\* C22: there is at most one ProjectMember record per (project, user) pair;
\* add_member for a user who is already a member answers 400 and changes
\* nothing, also at the INSERT of a request that looked the pair up before
\* another request for it committed (so at most one of them answers 201).
C22_OneMembershipPerPair ==
    [][ /\ \A m1, m2 \in members' :
              (m1.project_id = m2.project_id /\ m1.user_id = m2.user_id) => m1 = m2
        /\ \A req \in adding :
              ( /\ add_member_commit(req)
                /\ get_user_project_role(req.project_id, req.user_id) # NULL ) =>
                 (last'.code = 400 /\ members' = members)
        /\ \A tok \in tokens, p \in DOMAIN projects, u \in UserIds,
              r \in {"MEMBER", "MANAGER"} :
              ( /\ \/ add_member(tok, p, u, r)
                   \/ add_member_lookup(tok, p, u, r)
                /\ has_project_access(p, tok, {"ADMIN", "MANAGER"}).has_access
                /\ get_user_project_role(p, u) # NULL ) =>
                 (last'.code = 400 /\ members' = members /\ adding' = adding)
      ]_vars

\* of two interleaved requests to add u2, the second to commit was refused
C22_Witness ==
    /\ last.op = "add_member" /\ last.code = 400 /\ last.info = "u2"
    /\ get_user_project_role(1, "u2") = "MANAGER"
    /\ adding = {}

\* C27: add_member never creates a membership whose project role ranks above
\* the caller's own project role (ADMIN > MANAGER > MEMBER > VIEWER), unless
\* the caller's token role is ADMIN.
C27_NoGrantAboveOwnRole ==
    [][ (last'.op = "add_member" /\ last'.code = 201 /\ last'.role # "ADMIN") =>
           \A m \in members' \ members :
              Rank(m.role) <= Rank(get_user_project_role(last'.id, last'.uid))
      ]_vars

\* the comment reached from c by following parent_comment_id n times
RECURSIVE Climb(_, _)
Climb(c, n) ==
    IF n = 0 \/ c \notin DOMAIN comments THEN c
    ELSE Climb(comments[c].parent_comment_id, n - 1)

ThreadsWellFormed ==
    \A c \in DOMAIN comments :
       /\ comments[c].parent_comment_id # 0 =>
             /\ comments[c].parent_comment_id \in DOMAIN comments
             /\ comments[comments[c].parent_comment_id].task_id = comments[c].task_id
       /\ Climb(c, Cardinality(DOMAIN comments)) = 0

\* C29: every comment with a parent_comment_id refers to an existing comment
\* of the same task and the parent relation is acyclic; add_comment with a
\* parent of another task answers 400, with an unknown parent 404, and
\* creates no comment.
C29_ThreadsStayInTask ==
    [][ /\ ThreadsWellFormed'
        /\ \A tok \in tokens, t \in DOMAIN tasks, par \in 1..(MaxThread + 1) :
              ( /\ add_comment_within(MaxThread, tok, Ref(t, "canon"), TRUE, par)
                /\ task_has_project_access(tasks[t].project_id, tok.uid, tok) ) =>
                 /\ par \notin DOMAIN comments =>
                       (last'.code = 404 /\ comments' = comments)
                 /\ (par \in DOMAIN comments /\ comments[par].task_id # t) =>
                       (last'.code = 400 /\ comments' = comments)
      ]_vars

\* a thread of three comments under one task, and a reply under the other
\* task to a comment of that thread refused
C29_Witness ==
    /\ last.op = "add_comment" /\ last.code = 400
    /\ DOMAIN comments = 1..3
    /\ comments[2].parent_comment_id = 1
    /\ comments[3].parent_comment_id = 2
    /\ comments[1].task_id # last.id
    /\ last.id \in DOMAIN tasks

\* C23: create_task and update_task store an assignee only if that user
\* exists and has a ProjectMember record in the task's project at the time
\* of the request, whoever the caller is.
C23_AssigneeIsMember ==
    [][ \A t \in DOMAIN tasks' :
          ( /\ tasks'[t].assignee_id # NULL
            /\ t \in DOMAIN tasks => tasks[t].assignee_id # tasks'[t].assignee_id ) =>
             /\ tasks'[t].assignee_id \in DOMAIN users
             /\ get_user_project_role(tasks'[t].project_id, tasks'[t].assignee_id) # NULL
      ]_vars

\* C30: every project whose start_date and end_date are both set has
\* start_date <= end_date, after any sequence of create_project and
\* update_project requests, also when two update_project requests on the
\* same project interleave.
C30_DatesOrdered ==
    \A p \in DOMAIN projects :
       (projects[p].start_date # NULL /\ projects[p].end_date # NULL) =>
          DateOrd(projects[p].start_date) <= DateOrd(projects[p].end_date)
====
